---------------------------- MODULE Spec2Model ----------------------------
(***************************************************************************)
(* Model of algorithm_trees.py: LSO (orientation of a graph by component   *)
(* sizes), alg2 (scenario 2: subtree-size labels and tile signatures) and  *)
(* alg3 (scenario 3: level-wise classification of subtrees by              *)
(* isomorphism).  Drawing (graphviz_layout, nx.draw, plt) is left out: it  *)
(* reads T and writes files only.                                          *)
(*                                                                         *)
(* Nodes are 1..n.  G is the set of undirected edges, each kept as <<a,b>> *)
(* with a < b.  T is the set of directed edges of the nx.DiGraph; label    *)
(* gives the "labels" attribute of each edge of T, 0 for an edge that has  *)
(* no such attribute.                                                      *)
(*                                                                         *)
(* networkx keeps nodes and adjacencies in insertion order, so the order   *)
(* in which G.edges lists the edges, the endpoint order (u, v) of each     *)
(* listed edge and the adjacency order of T depend on how the caller built *)
(* G.  Two kinds of input are modelled:                                    *)
(*   ascending = TRUE   G was built by inserting nodes and edges in        *)
(*                      ascending order: G.edges lists the edges in        *)
(*                      lexicographic order with u < v, and every          *)
(*                      adjacency of T is ascending.  Any connected        *)
(*                      simple graph.                                      *)
(*   ascending = FALSE  G is a tree built in an unknown order: any         *)
(*                      listing order and any endpoint order.              *)
(***************************************************************************)
EXTENDS Integers, Sequences, FiniteSets

\* Largest tree (number of nodes) given in an unknown insertion order.
MaxNodes == 6
\* Largest connected graph (number of nodes) given in ascending order.
MaxGraphNodes == 4

VARIABLES
    n,          \* number of nodes of G; G.nodes = 1..n
    ascending,  \* how the caller built G (see above)
    alg,        \* the function called: "alg2" or "alg3"
    G,          \* edges of the undirected graph G
    pc,         \* position in the called function
    todo,       \* LSO: edges of list(G.edges(data=True)) not yet iterated
    Tnodes,     \* nodes of T
    T,          \* directed edges of T
    label,      \* T.edges[e]["labels"], 0 when the attribute is absent
    root,       \* alg2, alg3: root
    visited,    \* alg2: nodes of T_list already iterated
    labels,     \* alg2: list labels
    tiles,      \* alg2: list tiles
    h,          \* alg3: h
    j,          \* alg3: j
    i,          \* alg3: level i of the outer loop
    level,      \* alg3: nodes of the level-i list not yet iterated
    subgraphs,  \* alg3: list subgraphs
    result      \* what the call returned

vars == <<n, ascending, alg, G, pc, todo, Tnodes, T, label, root, visited,
          labels, tiles, h, j, i, level, subgraphs, result>>

-----------------------------------------------------------------------------
(* Integers and sequences *)

Max(S) == CHOOSE x \in S : \A y \in S : y <= x
Min(S) == CHOOSE x \in S : \A y \in S : x <= y

Range(s) == {s[k] : k \in 1..Len(s)}

\* v inserted into the ascending sequence s
Insert(s, v) ==
    LET before == {k \in 1..Len(s) : s[k] <= v}
        p == Cardinality(before)
    IN  SubSeq(s, 1, p) \o <<v>> \o SubSeq(s, p + 1, Len(s))

RECURSIVE SortFrom(_, _)
SortFrom(s, acc) ==
    IF s = <<>> THEN acc ELSE SortFrom(Tail(s), Insert(acc, Head(s)))

\* list.sort() on a list of integers
Sort(s) == SortFrom(s, <<>>)

-----------------------------------------------------------------------------
(* The undirected graph G *)

Und(u, v) == IF u < v THEN <<u, v>> ELSE <<v, u>>

Neighbors(E, x) == {e[2] : e \in {f \in E : f[1] = x}}
                       \cup {e[1] : e \in {f \in E : f[2] = x}}

RECURSIVE Grow(_, _)
Grow(E, S) ==
    LET S2 == S \cup UNION {Neighbors(E, x) : x \in S}
    IN  IF S2 = S THEN S ELSE Grow(E, S2)

\* nx.node_connected_component(G, x)
NodeConnectedComponent(E, x) == Grow(E, {x})

AllPairs(k) == {e \in (1..k) \X (1..k) : e[1] < e[2]}

Connected(k, E) == NodeConnectedComponent(E, 1) = 1..k

\* Trees on 1..k, one for each way to attach node m to a node before it.
TreesOn(k) ==
    {{<<par[m], m>> : m \in 2..k} :
        par \in {p \in [2..k -> 1..k] : \A m \in 2..k : p[m] < m}}

\* Connected simple graphs on 1..k.
GraphsOn(k) == {E \in SUBSET AllPairs(k) : Connected(k, E)}

-----------------------------------------------------------------------------
(* The directed graph T *)

Successors(D, x) == {e[2] : e \in {f \in D : f[1] = x}}
Predecessors(D, x) == {e[1] : e \in {f \in D : f[2] = x}}
InDegree(D, x) == Cardinality(Predecessors(D, x))
OutDegree(D, x) == Cardinality(Successors(D, x))

\* list(T.predecessors(x))[0]: the predecessor inserted first.  A node of a
\* tree has one predecessor; with ascending insertion the first is the least.
FirstPredecessor(D, x) == Min(Predecessors(D, x))

\* The state of a depth-first search: nodes reached, tree edges, and the nodes
\* in the order of first visit (pre) and of completion (post).
RECURSIVE DfsNode(_, _, _), DfsChildren(_, _, _, _)

\* The search at x, x already in st.vis.
DfsNode(D, x, st) ==
    LET r == DfsChildren(D, x, Successors(D, x), st)
    IN  [r EXCEPT !.post = Append(@, x)]

\* The successors of x still to look at, in adjacency (ascending) order.
DfsChildren(D, x, rest, st) ==
    IF rest = {} THEN st
    ELSE LET s == Min(rest)
         IN  DfsChildren(D, x, rest \ {s},
                 IF s \in st.vis THEN st
                 ELSE DfsNode(D, s, [st EXCEPT !.vis = @ \cup {s},
                                               !.edges = @ \cup {<<x, s>>},
                                               !.pre = Append(@, s)]))

Dfs(D, x) == DfsNode(D, x, [vis |-> {x}, edges |-> {}, pre |-> <<x>>, post |-> <<>>])

\* nx.dfs_tree(D, x): the graph of the tree edges of the search from x
DfsTree(D, x) == [nodes |-> Dfs(D, x).vis, edges |-> Dfs(D, x).edges]

\* list(nx.dfs_preorder_nodes(D, source = x))
DfsPreorderNodes(D, x) == Dfs(D, x).pre

\* list(nx.dfs_postorder_nodes(D, source = x))
DfsPostorderNodes(D, x) == Dfs(D, x).post

\* Mutant of SubtreeLen: the descendants of x are counted without x.
SubtreeLenNoSelf(D, x) == Cardinality(DfsTree(D, x).nodes) - 1

\* len(list(nx.dfs_tree(D, x)))
SubtreeLen(D, x) == Cardinality(DfsTree(D, x).nodes)

RECURSIVE LongestFrom(_, _)
LongestFrom(D, x) ==
    IF Successors(D, x) = {} THEN 0
    ELSE 1 + Max({LongestFrom(D, y) : y \in Successors(D, x)})

\* nx.dag_longest_path_length(T): edges on a longest directed path
DagLongestPathLength(N, D) ==
    IF N = {} THEN 0 ELSE Max({LongestFrom(D, x) : x \in N})

RECURSIVE Layer(_, _, _, _)
Layer(D, frontier, seen, d) ==
    IF d = 0 THEN frontier
    ELSE LET next == (UNION {Successors(D, x) : x \in frontier}) \ seen
         IN  Layer(D, next, seen \cup next, d - 1)

\* nx.descendants_at_distance(D, x, d): nodes at distance exactly d from x
DescendantsAtDistance(D, x, d) == Layer(D, {x}, {x}, d)

\* Mutant of IsIsomorphic: the two graphs are compared node for node.
IsIdentical(A, B) == A.nodes = B.nodes /\ A.edges = B.edges

\* nx.is_isomorphic(A, B) on two DiGraphs: a bijection of the nodes that
\* carries the edges of A onto the edges of B
IsIsomorphic(A, B) ==
    /\ Cardinality(A.nodes) = Cardinality(B.nodes)
    /\ Cardinality(A.edges) = Cardinality(B.edges)
    /\ \E f \in [A.nodes -> B.nodes] :
          /\ \A x, y \in A.nodes : x # y => f[x] # f[y]
          /\ \A e \in A.edges : <<f[e[1]], f[e[2]]>> \in B.edges

-----------------------------------------------------------------------------
(* LSO *)

\* G.remove_edge(u, v)
RemoveEdge(E, u, v) == E \ {Und(u, v)}

\* Mutant of AddEdge: the edge taken out is not put back.
AddEdgeForgotten(E, u, v) == E

\* G.add_edge(u, v)
AddEdge(E, u, v) == E \cup {Und(u, v)}

\* Mutant of Orientation: the comparison is turned round, so that an edge
\* points to the larger component.
OrientationToLarger(E, u, v) ==
    LET l1 == Cardinality(NodeConnectedComponent(E, u))
        l2 == Cardinality(NodeConnectedComponent(E, v))
    IN  IF l2 < l1 THEN <<v, u>> ELSE <<u, v>>

\* The edge LSO adds to T for the listed edge (u, v); E is G with the edge
\* taken out.
Orientation(E, u, v) ==
    LET l1 == Cardinality(NodeConnectedComponent(E, u))
        l2 == Cardinality(NodeConnectedComponent(E, v))
    IN  IF l2 > l1 THEN <<v, u>> ELSE <<u, v>>

\* The first edge of S in the order G.edges lists ascending insertions.
FirstListed(S) ==
    CHOOSE e \in S : \A f \in S : e[1] < f[1] \/ (e[1] = f[1] /\ e[2] <= f[2])

\* for n, d in T.in_degree(): if d == 0: root = n   (from node k on)
RECURSIVE ScanRoot(_, _, _, _)
ScanRoot(D, k, last, r) ==
    IF k > last THEN r
    ELSE ScanRoot(D, k + 1, last, IF InDegree(D, k) = 0 THEN k ELSE r)

\* root = 0, then the scan over all nodes in insertion order.  A tree has one
\* node of in-degree 0, so the order of the scan decides nothing there.
FindRoot(N, D) == ScanRoot(D, 1, Cardinality(N), 0)

-----------------------------------------------------------------------------
(* alg2 *)

\* Mutant of AppendNew: x is appended without looking for it in the list.
AppendAlways(list, x) == Append(list, x)

\* Mutant of AppendNew: x is compared with the last element only.
AppendNewLast(list, x) ==
    IF list # <<>> /\ list[Len(list)] = x THEN list ELSE Append(list, x)

\* if x not in list: list.append(x)
AppendNew(list, x) == IF x \in Range(list) THEN list ELSE Append(list, x)

\* The tile of a node x that has successors: the sorted subtree sizes of the
\* nodes of the preorder from x.  The sort makes the preorder's order moot.
Tile(D, x) ==
    LET pre == DfsPreorderNodes(D, x)
    IN  Sort([k \in 1..Len(pre) |-> SubtreeLen(D, pre[k])])

NoResult == [kind |-> "none", pair |-> <<>>, error |-> ""]
Returned(a, b) == [kind |-> "returned", pair |-> <<a, b>>, error |-> ""]
Raised(e) == [kind |-> "raised", pair |-> <<>>, error |-> e]

-----------------------------------------------------------------------------
(* Initial states: the call alg2(G) or alg3(G) on a graph G *)

Init ==
    /\ alg \in {"alg2", "alg3"}
    /\ \/ /\ ascending = FALSE
          /\ \E k \in 1..MaxNodes : n = k /\ G \in TreesOn(k)
       \/ /\ ascending = TRUE
          /\ \E k \in 1..MaxGraphNodes : n = k /\ G \in GraphsOn(k)
    /\ pc = "call"
    /\ todo = {}
    /\ Tnodes = {}
    /\ T = {}
    /\ label = [e \in {} |-> 0]
    /\ root = 0
    /\ visited = {}
    /\ labels = <<>>
    /\ tiles = <<>>
    /\ h = 0
    /\ j = 0
    /\ i = 0
    /\ level = {}
    /\ subgraphs = <<>>
    /\ result = NoResult

-----------------------------------------------------------------------------
(* Actions *)

\* LSO, lines 31-35: T gets the nodes of G; the list of G's edges is taken.
LSOBegin ==
    /\ pc = "call"
    /\ Tnodes' = 1..n
    /\ T' = {}
    /\ todo' = G
    /\ pc' = "LSO"
    /\ UNCHANGED <<n, ascending, alg, G, label, root, visited, labels, tiles,
                   h, j, i, level, subgraphs, result>>

\* LSO, lines 35-43: one iteration of the loop, for the listed edge (u, v).
LSOStep(u, v) ==
    /\ pc = "LSO"
    /\ Und(u, v) \in todo
    /\ ascending => <<u, v>> = FirstListed(todo)
    /\ LET removed == RemoveEdge(G, u, v)
       IN  /\ T' = T \cup {Orientation(removed, u, v)}
           /\ G' = AddEdge(removed, u, v)
    /\ label' = [e \in T' |-> 0]
    /\ todo' = todo \ {Und(u, v)}
    /\ UNCHANGED <<n, ascending, alg, pc, Tnodes, root, visited, labels, tiles,
                   h, j, i, level, subgraphs, result>>

\* LSO, line 50: the loop is over, T is returned to alg2 or alg3.
LSOReturn ==
    /\ pc = "LSO"
    /\ todo = {}
    /\ pc' = alg
    /\ UNCHANGED <<n, ascending, alg, G, todo, Tnodes, T, label, root, visited,
                   labels, tiles, h, j, i, level, subgraphs, result>>

\* alg2, lines 57-67: the root is found; T_list is the postorder from it
\* (networkx raises KeyError for a source that is no node of T).
Alg2Begin ==
    /\ pc = "alg2"
    /\ root' = FindRoot(Tnodes, T)
    /\ IF root' \in Tnodes
         THEN pc' = "alg2_loop" /\ result' = result
         ELSE pc' = "done" /\ result' = Raised("KeyError")
    /\ visited' = {}
    /\ labels' = <<>>
    /\ tiles' = <<>>
    /\ UNCHANGED <<n, ascending, alg, G, todo, Tnodes, T, label, h, j, i, level,
                   subgraphs>>

\* x can be the next node of T_list.  With ascending adjacencies T_list is
\* the postorder of the search; otherwise the order of T_list depends on the
\* adjacency order of T, and every order that lists the successors of a node
\* before the node is admitted (the postorders are among them).
NextOfTList(x) ==
    /\ x \in Dfs(T, root).vis \ visited
    /\ Successors(T, x) \subseteq visited
    /\ ascending => x = DfsPostorderNodes(T, root)[Cardinality(visited) + 1]

\* alg2, lines 70-86: one iteration of the loop over T_list, for node x.
Alg2Visit(x) ==
    /\ pc = "alg2_loop"
    /\ NextOfTList(x)
    /\ LET k == SubtreeLen(T, x)
       IN  IF x # root
           THEN /\ label' = [label EXCEPT ![<<FirstPredecessor(T, x), x>>] = k]
                /\ labels' = AppendNew(labels, k)
           ELSE UNCHANGED <<label, labels>>
    /\ tiles' = IF Successors(T, x) = {}
                 THEN AppendNew(tiles, <<>>)
                 ELSE AppendNew(tiles, Tile(T, x))
    /\ visited' = visited \cup {x}
    /\ UNCHANGED <<n, ascending, alg, G, pc, todo, Tnodes, T, root, h, j, i,
                   level, subgraphs, result>>

\* alg2, line 95
Alg2Return ==
    /\ pc = "alg2_loop"
    /\ visited = Dfs(T, root).vis
    /\ result' = Returned(Len(labels), Len(tiles))
    /\ pc' = "done"
    /\ UNCHANGED <<n, ascending, alg, G, todo, Tnodes, T, label, root, visited,
                   labels, tiles, h, j, i, level, subgraphs>>

-----------------------------------------------------------------------------
(* alg3 *)

\* Mutant of LastLevel: the loop stops one level early, range(h-1, 1, -1).
LastLevelTwo == 1 + 1

\* range(h-1, 0, -1): the first level iterated, and the last one
FirstLevel(height) == height - 1
LastLevel == 1

\* list(nx.descendants_at_distance(T, root, d)), taken when level d begins
LevelList(D, r, d) ==
    IF d >= LastLevel THEN DescendantsAtDistance(D, r, d) ELSE {}

\* Lines 114-116: the incoming edge of every node of out-degree 0 and
\* in-degree 1 gets the label 1.
LabelLeaves(D, lab) ==
    [e \in D |-> IF /\ OutDegree(D, e[2]) = 0
                    /\ InDegree(D, e[2]) = 1
                    /\ e[1] = FirstPredecessor(D, e[2])
                 THEN 1 ELSE lab[e]]

\* Lines 121-129: whether node l, whose subtree is sub, gets a new label.
GetsNewLabel(lab, seen, l, sub) ==
    IF seen = <<>>
    THEN lab[<<FirstPredecessor(T, l), l>>] = 0
    ELSE /\ ~ \E k \in 1..Len(seen) : IsIsomorphic(sub, seen[k])
         /\ lab[<<FirstPredecessor(T, l), l>>] = 0

\* alg3, lines 102-118 (T is acyclic, so line 103 does not raise; line 120
\* raises NetworkXError for a root that is no node of T).
Alg3Begin ==
    /\ pc = "alg3"
    /\ h' = DagLongestPathLength(Tnodes, T)
    /\ root' = FindRoot(Tnodes, T)
    /\ subgraphs' = <<>>
    /\ label' = LabelLeaves(T, label)
    /\ j' = 1
    /\ i' = FirstLevel(h')
    /\ IF i' >= LastLevel /\ root' \notin Tnodes
         THEN pc' = "done" /\ result' = Raised("NetworkXError") /\ level' = {}
         ELSE pc' = "alg3_loop" /\ result' = result
              /\ level' = LevelList(T, root', i')
    /\ UNCHANGED <<n, ascending, alg, G, todo, Tnodes, T, visited, labels, tiles>>

\* alg3, lines 120-130: one iteration of the inner loop, for node l of level
\* i.  descendants_at_distance returns a set: any order within a level.
Alg3Visit(l) ==
    /\ pc = "alg3_loop"
    /\ i >= LastLevel
    /\ l \in level
    /\ LET sub == DfsTree(T, l)
           e == <<FirstPredecessor(T, l), l>>
       IN  /\ IF GetsNewLabel(label, subgraphs, l, sub)
              THEN j' = j + 1 /\ label' = [label EXCEPT ![e] = j + 1]
              ELSE UNCHANGED <<j, label>>
           /\ subgraphs' = Append(subgraphs, sub)
    /\ level' = level \ {l}
    /\ UNCHANGED <<n, ascending, alg, G, pc, todo, Tnodes, T, root, visited,
                   labels, tiles, h, i, result>>

\* alg3, line 119: level i is over, the outer loop goes on with level i-1.
Alg3NextLevel ==
    /\ pc = "alg3_loop"
    /\ i >= LastLevel
    /\ level = {}
    /\ i' = i - 1
    /\ level' = LevelList(T, root, i')
    /\ UNCHANGED <<n, ascending, alg, G, pc, todo, Tnodes, T, label, root,
                   visited, labels, tiles, h, j, subgraphs, result>>

\* alg3, line 138
Alg3Return ==
    /\ pc = "alg3_loop"
    /\ i < LastLevel
    /\ result' = Returned(j, j + 1)
    /\ pc' = "done"
    /\ UNCHANGED <<n, ascending, alg, G, todo, Tnodes, T, label, root, visited,
                   labels, tiles, h, j, i, level, subgraphs>>

Next ==
    \/ LSOBegin
    \/ \E u, v \in 1..n : LSOStep(u, v)
    \/ LSOReturn
    \/ Alg2Begin
    \/ \E x \in Tnodes : Alg2Visit(x)
    \/ Alg2Return
    \/ Alg3Begin
    \/ \E l \in Tnodes : Alg3Visit(l)
    \/ Alg3NextLevel
    \/ Alg3Return

Spec == Init /\ [][Next]_vars

-----------------------------------------------------------------------------
(* Vocabulary of the properties *)

IsTree(k, E) == Connected(k, E) /\ Cardinality(E) = k - 1

\* A linear chain: a tree with no node of degree above 2.
IsPath(k, E) ==
    IsTree(k, E) /\ \A x \in 1..k : Cardinality(Neighbors(E, x)) <= 2

\* One center joined to k - 1 >= 1 leaves.
IsStar(k, E) ==
    /\ k >= 2
    /\ IsTree(k, E)
    /\ \E c \in 1..k : \A e \in E : c \in {e[1], e[2]}

\* The graph LSO was called on, while its loop runs.
Listed == todo \cup {Und(e[1], e[2]) : e \in T}

ZeroInDegree(D) == {x \in Tnodes : InDegree(D, x) = 0}

\* T is a rooted tree on the nodes of G.
RootedTree ==
    /\ Tnodes = 1..n
    /\ Cardinality(ZeroInDegree(T)) = 1
    /\ \A x \in Tnodes \ ZeroInDegree(T) : InDegree(T, x) = 1

TreeRoot(D) == CHOOSE x \in Tnodes : InDegree(D, x) = 0
Parent(D, x) == CHOOSE p \in Tnodes : <<p, x>> \in D
IsLeaf(D, x) == Successors(D, x) = {}

RECURSIVE SubtreeSize(_, _), SumOfSizes(_, _)
\* 1 plus the subtree sizes of the children
SubtreeSize(D, x) == 1 + SumOfSizes(D, Successors(D, x))
SumOfSizes(D, S) ==
    IF S = {} THEN 0
    ELSE LET c == CHOOSE y \in S : TRUE
         IN  SubtreeSize(D, c) + SumOfSizes(D, S \ {c})

RECURSIVE SubtreeNodes(_, _)
\* x and all its descendants
SubtreeNodes(D, x) == {x} \cup UNION {SubtreeNodes(D, c) : c \in Successors(D, x)}

\* The tile signature of x as a multiset: how often each size occurs among
\* the subtree sizes of x and its descendants; nothing occurs for a leaf.
\* Two ascending sequences are equal exactly when these counts are.
Signature(D, x) ==
    [s \in 1..n |->
        IF IsLeaf(D, x) THEN 0
        ELSE Cardinality({y \in SubtreeNodes(D, x) : SubtreeSize(D, y) = s})]

RECURSIVE Depth(_, _)
Depth(D, x) == IF InDegree(D, x) = 0 THEN 0 ELSE 1 + Depth(D, Parent(D, x))

Height(D) == Max({Depth(D, x) : x \in Tnodes})

RECURSIVE RootedIso(_, _, _)
\* The subtrees of D rooted at x and at y have the same shape: the children
\* of x match the children of y one to one, with subtrees of the same shape.
RootedIso(D, x, y) ==
    /\ OutDegree(D, x) = OutDegree(D, y)
    /\ \E f \in [Successors(D, x) -> Successors(D, y)] :
          /\ \A c, d \in Successors(D, x) : c # d => f[c] # f[d]
          /\ \A c \in Successors(D, x) : RootedIso(D, c, f[c])

\* The nodes that are neither the root nor a leaf
Inner(D) == {x \in Tnodes : InDegree(D, x) > 0 /\ ~IsLeaf(D, x)}

\* Number of shapes among the subtrees rooted at the nodes of S
Shapes(D, S) == Cardinality({{y \in S : RootedIso(D, x, y)} : x \in S})

\* The node whose subtree the graph sub is
SubRoot(sub) == CHOOSE x \in sub.nodes : \A e \in sub.edges : e[2] # x

Alg2Done == pc = "done" /\ alg = "alg2"
Alg3Done == pc = "done" /\ alg = "alg3"
LSOReturned == pc \notin {"call", "LSO"}

-----------------------------------------------------------------------------
(* C1 *)

\* C1 as claimed: for every connected simple graph G, cyclic ones included,
\* the T that LSO returns has the nodes of G, one node of in-degree 0, and
\* in-degree 1 at every other node.
C1_EveryGraphRooted == LSOReturned => RootedTree

\* C1 amended: the same, for every tree G.
C1_TreeRooted == (LSOReturned /\ IsTree(n, G)) => RootedTree

\* LSO has returned the orientation of a tree of five or more nodes.
C1_Witness == LSOReturned /\ IsTree(n, G) /\ n >= 5 /\ ~ascending

-----------------------------------------------------------------------------
(* C2 *)

\* C2: every iteration of LSO's loop takes one listed edge (u, v) and adds one
\* new directed edge to T: v -> u if, in the graph LSO was called on less that
\* one edge, the component of v is larger than the component of u, and u -> v
\* otherwise (a tie included).  With ascending insertion (u, v) has u < v.
C2_OneEdgeByRule ==
    [][(pc = "LSO" /\ pc' = "LSO") =>
         \E u, v \in 1..n :
            /\ Und(u, v) \in todo
            /\ todo' = todo \ {Und(u, v)}
            /\ ascending => u < v
            /\ LET rest == Listed \ {Und(u, v)}
                   l1 == Cardinality(NodeConnectedComponent(rest, u))
                   l2 == Cardinality(NodeConnectedComponent(rest, v))
                   new == IF l2 > l1 THEN <<v, u>> ELSE <<u, v>>
               IN  new \notin T /\ T' = T \cup {new}]_vars

\* LSO is through with a graph listed in ascending order that has an edge
\* whose removal leaves two components of the same size, or none at all, and
\* other edges besides.
C2_Witness ==
    /\ pc = "LSO" /\ todo = {} /\ ascending /\ Cardinality(G) >= 3
    /\ \E e \in G :
          /\ e \in T
          /\ Cardinality(NodeConnectedComponent(G \ {e}, e[1]))
                = Cardinality(NodeConnectedComponent(G \ {e}, e[2]))

-----------------------------------------------------------------------------
(* C7 *)

\* C7 as claimed: when T has no node or several nodes of in-degree 0, alg2 and
\* alg3 end in a MalformedOrientation error and return no pair.
C7_MalformedRaises ==
    (pc = "done" /\ Cardinality(ZeroInDegree(T)) # 1) =>
        (result.kind = "raised" /\ result.error = "MalformedOrientation")

-----------------------------------------------------------------------------
(* C3 *)

\* C3: for every tree G and every visiting order that takes children before
\* parents, alg2 labels the edge into each node x other than the root with the
\* subtree size of x and returns the number of distinct subtree sizes of the
\* nodes other than the root and the number of distinct tile signatures of all
\* nodes.
C3_LabelsAndCounts ==
    (Alg2Done /\ IsTree(n, G)) =>
        /\ result.kind = "returned"
        /\ \A x \in Tnodes \ {TreeRoot(T)} :
              label[<<Parent(T, x), x>>] = SubtreeSize(T, x)
        /\ result.pair[1]
              = Cardinality({SubtreeSize(T, x) : x \in Tnodes \ {TreeRoot(T)}})
        /\ result.pair[2] = Cardinality({Signature(T, x) : x \in Tnodes})

\* alg2 has returned on a tree of six or more nodes given in an unknown order,
\* with two or more distinct labels and three or more distinct tiles.
C3_Witness ==
    /\ Alg2Done /\ IsTree(n, G) /\ ~ascending /\ n >= 6
    /\ result.pair[1] >= 2 /\ result.pair[2] >= 3

-----------------------------------------------------------------------------
(* C5 *)

\* C5 as claimed: for every path graph alg2 returns the tile count 1.
C5_PathOneTile == (Alg2Done /\ IsPath(n, G)) => result.pair[2] = 1

\* C5 amended: for every path graph of n nodes alg2 returns the tile count
\* floor(n / 2) + 1 (which is 1 for the single node only).
C5_PathTiles ==
    (Alg2Done /\ IsPath(n, G)) =>
        (result.kind = "returned" /\ result.pair[2] = (n \div 2) + 1)

\* alg2 has returned on a path of five or more nodes.
C5_Witness == Alg2Done /\ IsPath(n, G) /\ n >= 5

-----------------------------------------------------------------------------
(* C6 *)

\* C6: for every star graph, whatever the order and the endpoint order of its
\* edges, alg2 labels every edge 1 and returns (1, 2).
C6_Star ==
    (Alg2Done /\ IsStar(n, G)) =>
        /\ result = Returned(1, 2)
        /\ \A e \in T : label[e] = 1

\* alg2 has returned on a star of three or more leaves given in an unknown
\* order.
C6_Witness == Alg2Done /\ IsStar(n, G) /\ n >= 4 /\ ~ascending

-----------------------------------------------------------------------------
(* C10 *)

\* What LSO gives when every edge of E is listed with its smaller end first.
AscendingLSO(E) ==
    {Orientation(RemoveEdge(E, e[1], e[2]), e[1], e[2]) : e \in E}

\* The pair of alg2 on the oriented tree D.
PairOf(D) ==
    <<Cardinality({SubtreeLen(D, x) : x \in {y \in Tnodes : InDegree(D, y) # 0}}),
      Cardinality({IF IsLeaf(D, x) THEN <<>> ELSE Tile(D, x) : x \in Tnodes})>>

\* C10: for every tree G, whatever the order in which the edges are listed and
\* whatever the endpoint order of each, alg2 returns the pair it returns when
\* every edge is listed with its smaller end first; an edge that splits the
\* tree in two halves may make either end the root.
C10_ListingIndependent ==
    (Alg2Done /\ IsTree(n, G)) =>
        (result.kind = "returned" /\ result.pair = PairOf(AscendingLSO(G)))

\* alg2 has returned on a tree whose listing made the other end of the
\* splitting edge the root, the two halves being of different shapes.
C10_Witness ==
    /\ Alg2Done /\ IsTree(n, G) /\ ~ascending
    /\ \E x \in Tnodes \ {root} :
          /\ InDegree(AscendingLSO(G), x) = 0
          /\ ~IsIsomorphic(DfsTree(T, x), DfsTree(AscendingLSO(G), root))

-----------------------------------------------------------------------------
(* C4 *)

\* The nodes whose subtrees alg3 has appended to subgraphs, in that order.
Seen == [k \in 1..Len(subgraphs) |-> SubRoot(subgraphs[k])]

\* alg3 on a tree: j starts at 1; the nodes are visited level by level, from
\* level h - 1 down; and when alg3 has returned, every leaf's incoming edge
\* has the label 1, the nodes visited are those of the levels 1 to h - 1, each
\* once, and the pair returned is (j, j + 1).
C4_Frame ==
    ((pc = "alg3_loop" \/ Alg3Done) /\ IsTree(n, G)) =>
        /\ subgraphs = <<>> => j = 1
        /\ h = Height(T)
        /\ \A k, m \in 1..Len(Seen) :
              k < m => (Seen[k] # Seen[m] /\ Depth(T, Seen[k]) >= Depth(T, Seen[m]))
        /\ \A k \in 1..Len(Seen) : Depth(T, Seen[k]) \in 1..(h - 1)
        /\ Alg3Done =>
              /\ \A x \in Tnodes :
                    (IsLeaf(T, x) /\ InDegree(T, x) = 1) => label[<<Parent(T, x), x>>] = 1
              /\ Range(Seen) = {x \in Tnodes : Depth(T, x) \in 1..(h - 1)}
              /\ result = Returned(j, j + 1)

\* A visit of alg3 on a tree adds 1 to j exactly when the incoming edge of the
\* node visited has no label yet and its subtree has the shape of none of the
\* subtrees of the nodes visited before it.
C4_Visit ==
    (pc = "alg3_loop" /\ IsTree(n, G) /\ Len(subgraphs') = Len(subgraphs) + 1) =>
        LET l == SubRoot(subgraphs'[Len(subgraphs')])
            counted == /\ label[<<Parent(T, l), l>>] = 0
                       /\ \A k \in 1..Len(Seen) : ~RootedIso(T, Seen[k], l)
        IN  j' = IF counted THEN j + 1 ELSE j

\* C4: for every tree G, alg3 labels the incoming edge of every leaf with 1
\* and returns (j, j + 1), j being 1 plus the number of nodes, visited level
\* by level from level h - 1 down to level 1, whose incoming edge was still
\* unlabeled when visited and whose subtree was isomorphic to none of the
\* subtrees of the nodes visited before.
C4_CountOfNewShapes == [](C4_Frame) /\ [][C4_Visit]_vars

\* alg3 has returned on a tree after visiting a node on two different levels
\* and giving out two new labels.
C4_Witness ==
    /\ Alg3Done /\ IsTree(n, G) /\ ~ascending /\ j >= 3
    /\ \E k, m \in 1..Len(Seen) : Depth(T, Seen[k]) # Depth(T, Seen[m])

-----------------------------------------------------------------------------
(* C8 *)

\* C8: for every tree G and every order in which the nodes of a level are
\* taken, the type count that alg3 returns is 1 plus the number of shapes of
\* the subtrees rooted at the nodes that are neither the root nor a leaf (and
\* the tile count is one more).
C8_CountOfShapes ==
    (Alg3Done /\ IsTree(n, G)) =>
        /\ result.kind = "returned"
        /\ result.pair[1] = 1 + Shapes(T, Inner(T))
        /\ result.pair[2] = 2 + Shapes(T, Inner(T))

\* alg3 has returned on a tree that has two subtrees of one shape on different
\* levels and subtrees of two shapes, having visited a level of two or more
\* nodes.
C8_Witness ==
    /\ Alg3Done /\ IsTree(n, G) /\ ~ascending
    /\ Shapes(T, Inner(T)) >= 2
    /\ \E x, y \in Inner(T) : RootedIso(T, x, y) /\ Depth(T, x) # Depth(T, y)
    /\ \E k, m \in 1..Len(Seen) : k # m /\ Depth(T, Seen[k]) = Depth(T, Seen[m])

-----------------------------------------------------------------------------
(* C9 *)

\* C9 as claimed: when alg3 has returned on a tree of two or more nodes,
\* every edge of T has a label, and every label lies in 1..j, j being the type
\* count returned.
C9_EveryEdgeLabelled ==
    (Alg3Done /\ IsTree(n, G) /\ n >= 2) =>
        \A e \in T : label[e] \in 1..result.pair[1]

=============================================================================
